---- MODULE Spec2Model ----
(***************************************************************************)
(* Model of script/hassfest/mypy_config.py: generate_and_validate(),       *)
(* validate() and generate() acting on a hassfest Config (errors, cache),  *)
(* the .strict-typing declaration file, the source tree and mypy.ini.      *)
(*                                                                         *)
(* Strings are sequences of tokens.  A module name is the sequence of its  *)
(* dotted segments with the dots kept as tokens, so that str.startswith,   *)
(* str.endswith, slicing and str.replace act on it as they do on the       *)
(* characters.  A text is [lines, tail]: the lines that are terminated by  *)
(* a newline, then the unterminated rest (<<>> when there is none).        *)
(* REQUIRED_PYTHON_VER comes from homeassistant.const; its two first       *)
(* components stay symbolic in the python_version value.                   *)
(***************************************************************************)
EXTENDS Integers, Sequences, FiniteSets

VARIABLES
    decl,      \* lines of the .strict-typing file
    fs,        \* [dirs, files]: the paths that exist in the source tree
    ini,       \* content of mypy.ini
    errors,    \* config.errors
    cache,     \* config.cache: [set, text] for the key "mypy_config"
    result,    \* [set, text]: what the last generate_and_validate() returned
    raised,    \* the exception that left the component, "none" if none
    history,   \* the operations called so far, oldest first
    before     \* len(config.errors) when the last operation was called

vars == <<decl, fs, ini, errors, cache, result, raised, history, before>>

\* Bounds of the model.
MaxDecl == 2
MaxCalls == 3
MaxOther == 1

----------------------------------------------------------------------------
\* Sequence helpers.

RECURSIVE Flatten(_)
Flatten(ss) == IF ss = <<>> THEN <<>> ELSE Head(ss) \o Flatten(Tail(ss))

\* str.startswith / str.endswith on token sequences.
StartsWith(s, p) == Len(s) >= Len(p) /\ SubSeq(s, 1, Len(p)) = p
EndsWith(s, p) == Len(s) >= Len(p) /\ SubSeq(s, Len(s) - Len(p) + 1, Len(s)) = p

\* module.replace(".", os.path.sep)
ReplaceDots(s) == [i \in 1..Len(s) |-> IF s[i] = "." THEN "/" ELSE s[i]]

----------------------------------------------------------------------------
\* Program constants.

COMPONENTS == <<"homeassistant", ".", "components">>

Component(name) == COMPONENTS \o <<".", name, ".", "*">>

IGNORED_MODULES ==
    << Component("blueprint"), Component("cloud"), Component("config"),
       Component("conversation"), Component("deconz"), Component("demo"),
       Component("denonavr"), Component("evohome"), Component("fireservicerota"),
       Component("firmata"), Component("freebox"), Component("geniushub"),
       Component("google_assistant"), Component("gree"), Component("harmony"),
       Component("hassio"), Component("here_travel_time"),
       Component("home_plus_control"), Component("homekit"),
       Component("homekit_controller"), Component("honeywell"),
       Component("icloud"), Component("influxdb"), Component("input_datetime"),
       Component("isy994"), Component("izone"), Component("konnected"),
       Component("kostal_plenticore"), Component("litterrobot"),
       Component("lovelace"), Component("lutron_caseta"), Component("lyric"),
       Component("melcloud"), Component("meteo_france"),
       Component("minecraft_server"), Component("mobile_app"),
       COMPONENTS \o <<".", "nest", ".", "legacy", ".", "*">>,
       Component("netgear"), Component("nilu"), Component("nzbget"),
       Component("omnilogic"), Component("onvif"), Component("ozw"),
       Component("philips_js"), Component("plex"), Component("profiler"),
       Component("ring"), Component("solaredge"), Component("sonos"),
       Component("spotify"), Component("system_health"),
       Component("telegram_bot"), Component("template"), Component("toon"),
       Component("unifi"), Component("upnp"), Component("vizio"),
       Component("withings"), Component("xbox"), Component("xiaomi_aqara"),
       Component("xiaomi_miio"), Component("yeelight"), Component("zha"),
       Component("zwave") >>

\* The literal of HEADER, before .lstrip(): it opens with a newline.
HEADER_LITERAL ==
    [lines |-> << <<>>,
                  <<"# Automatically generated by hassfest.">>,
                  <<"#">>,
                  <<"# To update, run python3 -m script.hassfest">>,
                  <<>> >>,
     tail |-> <<>>]

GENERAL_SETTINGS ==
    << <<"python_version", <<"REQUIRED_PYTHON_VER[0]", ".", "REQUIRED_PYTHON_VER[1]">> >>,
       <<"show_error_codes", <<"true">> >>,
       <<"follow_imports", <<"silent">> >>,
       <<"ignore_missing_imports", <<"true">> >>,
       <<"strict_equality", <<"true">> >>,
       <<"warn_incomplete_stub", <<"true">> >>,
       <<"warn_redundant_casts", <<"true">> >>,
       <<"warn_unused_configs", <<"true">> >>,
       <<"warn_unused_ignores", <<"true">> >> >>

STRICT_SETTINGS ==
    << "check_untyped_defs", "disallow_incomplete_defs", "disallow_subclassing_any",
       "disallow_untyped_calls", "disallow_untyped_decorators",
       "disallow_untyped_defs", "no_implicit_optional", "warn_return_any",
       "warn_unreachable" >>

STRICT_SETTINGS_CORE == << "disallow_any_generics" >>

----------------------------------------------------------------------------
\* Texts.

EmptyText == [lines |-> <<>>, tail |-> <<>>]

\* A line or a rest that str.strip() removes: nothing but whitespace.
IsBlank(line) == \A i \in 1..Len(line) : line[i] \in {" ", "\t"}

RECURSIVE DropLeadingBlank(_)
DropLeadingBlank(ls) ==
    IF ls # <<>> /\ IsBlank(Head(ls)) THEN DropLeadingBlank(Tail(ls)) ELSE ls

RECURSIVE DropTrailingBlank(_)
DropTrailingBlank(ls) ==
    IF ls # <<>> /\ IsBlank(ls[Len(ls)])
    THEN DropTrailingBlank(SubSeq(ls, 1, Len(ls) - 1))
    ELSE ls

\* str.lstrip(): the leading blank lines go; a text of blanks alone is "".
LStrip(t) ==
    LET ls == DropLeadingBlank(t.lines)
    IN  IF ls = <<>> /\ IsBlank(t.tail) THEN EmptyText
        ELSE [lines |-> ls, tail |-> t.tail]

\* str.rstrip(): the trailing newlines go, the last line loses its newline.
RStrip(t) ==
    IF ~IsBlank(t.tail) THEN t
    ELSE LET ls == DropTrailingBlank(t.lines)
         IN  IF ls = <<>> THEN EmptyText
             ELSE [lines |-> SubSeq(ls, 1, Len(ls) - 1), tail |-> ls[Len(ls)]]

\* str.strip()
Strip(t) == RStrip(LStrip(t))

\* a + b for texts
Concat(a, b) ==
    IF b.lines = <<>> THEN [lines |-> a.lines, tail |-> a.tail \o b.tail]
    ELSE [lines |-> a.lines \o <<a.tail \o Head(b.lines)>> \o Tail(b.lines),
          tail |-> b.tail]

NewlineText == [lines |-> << <<>> >>, tail |-> <<>>]

HEADER == LStrip(HEADER_LITERAL)

----------------------------------------------------------------------------
\* The declaration file.

\* line.strip() on one line of the file (its newline is not kept in a line).
RECURSIVE StripLine(_)
StripLine(line) ==
    IF line # <<>> /\ Head(line) \in {" ", "\t"} THEN StripLine(Tail(line))
    ELSE IF line # <<>> /\ line[Len(line)] \in {" ", "\t"}
         THEN StripLine(SubSeq(line, 1, Len(line) - 1))
         ELSE line

\* The filter of parsed_modules: not empty, not commented.
KeepLine(line) == StripLine(line) # <<>> /\ ~StartsWith(line, <<"#">>)

\* parsed_modules
ParsedModules(lines) ==
    LET kept == SelectSeq(lines, KeepLine)
    IN  [i \in 1..Len(kept) |-> StripLine(kept[i])]

\* strict_modules / strict_core_modules
IsStrictModule(module) == StartsWith(module, COMPONENTS)

IsCoreModule(module) == ~IsStrictModule(module)

StrictModules(parsed) == SelectSeq(parsed, IsStrictModule)

StrictCoreModules(parsed) == SelectSeq(parsed, IsCoreModule)

----------------------------------------------------------------------------
\* Errors.

MypyError(message) == [plugin |-> "mypy_config", error |-> message, fixable |-> FALSE]

OnlyComponentsMsg(module) == <<"Only components should be added: ">> \o module

IgnoredListMsg(module) ==
    <<"Module '">> \o module \o <<"' is in ignored list in mypy_config.py">>

NotAFolderMsg(module) == <<"Module '">> \o module \o <<" is not a folder">>

DoesntExistMsg(module) == <<"Module '">> \o ReplaceDots(module) \o <<" doesn't exist">>

StaleError ==
    [plugin |-> "mypy_config",
     error |-> <<"File mypy.ini is not up to date. Run python3 -m script.hassfest">>,
     fixable |-> TRUE]

\* any(err.plugin == "mypy_config" for err in config.errors)
HasMypyError(errs) == \E i \in 1..Len(errs) : errs[i].plugin = "mypy_config"

\* As IsMisplaced, without the exception for the bare root.
IsMisplacedNoRoot(module) == ~StartsWith(module, COMPONENTS \o <<".">>)

\* The component namespace test of the strict-list loop.
IsMisplaced(module) ==
    ~StartsWith(module, COMPONENTS \o <<".">>) /\ module # COMPONENTS

\* As IsIgnored, but looking the name up with the wildcard suffix added.
IsIgnoredAsPackage(module) ==
    \E i \in 1..Len(IGNORED_MODULES) : IGNORED_MODULES[i] = module \o <<".", "*">>

\* module in ignored_modules_set
IsIgnored(module) == \E i \in 1..Len(IGNORED_MODULES) : IGNORED_MODULES[i] = module

\* The errors of one pass of the strict-list loop body.
StrictListErrors(module) ==
    (IF IsMisplaced(module) THEN <<MypyError(OnlyComponentsMsg(module))>> ELSE <<>>)
    \o (IF IsIgnored(module) THEN <<MypyError(IgnoredListMsg(module))>> ELSE <<>>)

\* As ModuleExists, without the look for <path>/__init__.py.
ModuleExistsNoPackage(module, tree) ==
    IF EndsWith(module, <<".", "*">>)
    THEN ReplaceDots(SubSeq(module, 1, Len(module) - 2)) \in tree.dirs
    ELSE ReplaceDots(module) \o <<".py">> \in tree.files

\* Path.is_dir / Path.is_file of the existence loop.
ModuleExists(module, tree) ==
    IF EndsWith(module, <<".", "*">>)
    THEN ReplaceDots(SubSeq(module, 1, Len(module) - 2)) \in tree.dirs
    ELSE \/ ReplaceDots(module) \o <<".py">> \in tree.files
         \/ ReplaceDots(module) \o <<"/", "__init__.py">> \in tree.files

\* The errors of one pass of the existence loop body.
ExistenceErrors(module, tree) ==
    IF ModuleExists(module, tree) THEN <<>>
    ELSE IF EndsWith(module, <<".", "*">>)
         THEN <<MypyError(NotAFolderMsg(module))>>
         ELSE <<MypyError(DoesntExistMsg(module))>>

\* all_modules
AllModules(parsed) ==
    StrictModules(parsed) \o StrictCoreModules(parsed) \o IGNORED_MODULES

\* Everything the two validation loops append, in the order they append it.
ValidationErrors(parsed, tree) ==
    LET strict == StrictModules(parsed)
        all == AllModules(parsed)
    IN  Flatten([i \in 1..Len(strict) |-> StrictListErrors(strict[i])])
        \o Flatten([i \in 1..Len(all) |-> ExistenceErrors(all[i], tree)])

----------------------------------------------------------------------------
\* configparser.ConfigParser: the sections in insertion order, and whether
\* add_section has raised DuplicateSectionError.

NewConfigParser == [sections |-> <<>>, duplicate |-> FALSE]

HasSection(cp, name) == \E i \in 1..Len(cp.sections) : cp.sections[i].name = name

AddSection(cp, name) ==
    IF cp.duplicate THEN cp
    ELSE IF HasSection(cp, name) THEN [cp EXCEPT !.duplicate = TRUE]
    ELSE [cp EXCEPT !.sections = Append(@, [name |-> name, options |-> <<>>])]

\* A dict assignment: a key that is there keeps its place.
SetOption(options, key, value) ==
    IF \E i \in 1..Len(options) : options[i][1] = key
    THEN [options EXCEPT ![CHOOSE i \in 1..Len(options) : options[i][1] = key] =
            <<key, value>>]
    ELSE Append(options, <<key, value>>)

ConfigSet(cp, name, key, value) ==
    IF cp.duplicate THEN cp
    ELSE LET at == CHOOSE i \in 1..Len(cp.sections) : cp.sections[i].name = name
         IN  [cp EXCEPT !.sections[at].options = SetOption(@, key, value)]

RECURSIVE SetKeys(_, _, _, _)
SetKeys(cp, name, keys, value) ==
    IF keys = <<>> THEN cp
    ELSE SetKeys(ConfigSet(cp, name, Head(keys), value), name, Tail(keys), value)

RECURSIVE SetItems(_, _, _)
SetItems(cp, name, items) ==
    IF items = <<>> THEN cp
    ELSE SetItems(ConfigSet(cp, name, Head(items)[1], Head(items)[2]), name, Tail(items))

\* RawConfigParser.write: "[name]", "key = value" per option, an empty line.
WriteSection(section) ==
    << <<"[">> \o section.name \o <<"]">> >>
    \o [i \in 1..Len(section.options) |->
          <<section.options[i][1], " = ">> \o section.options[i][2]]
    \o << <<>> >>

ConfigWrite(cp) ==
    [lines |-> Flatten([i \in 1..Len(cp.sections) |-> WriteSection(cp.sections[i])]),
     tail |-> <<>>]

SectionName(module) == <<"mypy-">> \o module

\* for module in modules: add_section(f"mypy-{module}"); set every key to value
\* (the loop over a list is the loop over its first half, then over the rest;
\* no iteration runs once add_section has raised)
RECURSIVE AddModuleSections(_, _, _, _)
AddModuleSections(cp, modules, keys, value) ==
    IF cp.duplicate \/ modules = <<>> THEN cp
    ELSE IF Len(modules) = 1
    THEN SetKeys(AddSection(cp, SectionName(modules[1])),
                 SectionName(modules[1]), keys, value)
    ELSE LET half == Len(modules) \div 2
         IN  AddModuleSections(
                AddModuleSections(cp, SubSeq(modules, 1, half), keys, value),
                SubSeq(modules, half + 1, Len(modules)), keys, value)

GeneralSection(cp) ==
    SetKeys(SetItems(AddSection(cp, <<"mypy">>), <<"mypy">>, GENERAL_SETTINGS),
            <<"mypy">>, STRICT_SETTINGS, <<"true">>)

CoreSections(cp, core) ==
    AddModuleSections(cp, core, STRICT_SETTINGS_CORE, <<"true">>)

ComponentsSection(cp) ==
    AddModuleSections(cp, <<COMPONENTS \o <<".", "*">> >>, STRICT_SETTINGS, <<"false">>)

StrictSections(cp, strict) ==
    AddModuleSections(cp, strict, STRICT_SETTINGS, <<"true">>)

TestsSection(cp) ==
    AddModuleSections(cp, << <<"tests", ".", "*">> >>, STRICT_SETTINGS, <<"false">>)

IgnoredSections(cp) ==
    AddModuleSections(cp, IGNORED_MODULES, <<"ignore_errors">>, <<"true">>)

\* As BuildConfig, with the tests section added before the strict components.
BuildConfigTestsFirst(parsed) ==
    IgnoredSections(
        StrictSections(
            TestsSection(
                ComponentsSection(
                    CoreSections(GeneralSection(NewConfigParser),
                                 StrictCoreModules(parsed)))),
            StrictModules(parsed)))

\* The ConfigParser as the rendering part of generate_and_validate builds it.
BuildConfig(parsed) ==
    IgnoredSections(
        TestsSection(
            StrictSections(
                ComponentsSection(
                    CoreSections(GeneralSection(NewConfigParser),
                                 StrictCoreModules(parsed))),
                StrictModules(parsed))))

\* HEADER + fp.read().strip()
RenderText(cp) == Concat(HEADER, Strip(ConfigWrite(cp)))

\* As BlocksGeneration, letting the rendering go on whatever the errors.
BlocksGenerationNever(errs) == FALSE

\* The gate before the rendering.
BlocksGeneration(errs) == HasMypyError(errs)

\* generate_and_validate(config): the errors of the context after the call,
\* the exception it raised ("none" if it returned) and the text it returned.
GenerateAndValidate(lines, tree, errs) ==
    LET parsed == ParsedModules(lines)
        after == errs \o ValidationErrors(parsed, tree)
    IN  IF BlocksGeneration(after)
        THEN [errors |-> after, raised |-> "none", text |-> EmptyText]
        ELSE LET cp == BuildConfig(parsed)
             IN  IF cp.duplicate
                 THEN [errors |-> after, raised |-> "DuplicateSectionError",
                       text |-> EmptyText]
                 ELSE [errors |-> after, raised |-> "none", text |-> RenderText(cp)]

\* As SkipsComparison, without the early return.
SkipsComparisonNever(errs) == FALSE

\* The gate of validate() before it reads mypy.ini.
SkipsComparison(errs) == HasMypyError(errs)

\* f"{config.cache['mypy_config']}\n"
FileContent(text) == Concat(text, NewlineText)

----------------------------------------------------------------------------
\* The inputs: lines of the declaration file, source trees, mypy.ini.

Foo == COMPONENTS \o <<".", "foo">>
Demo == COMPONENTS \o <<".", "demo">>
DemoAll == Component("demo")
Core == <<"homeassistant", ".", "core">>
ComponentsX == COMPONENTS \o <<"_x">>
ComponentsAll == COMPONENTS \o <<".", "*">>
TestsAll == <<"tests", ".", "*">>

DeclLines == { Foo, Demo, DemoAll, Core, ComponentsX, COMPONENTS, ComponentsAll }

RECURSIVE SeqsUpTo(_, _)
SeqsUpTo(S, n) ==
    IF n = 0 THEN { <<>> }
    ELSE LET shorter == SeqsUpTo(S, n - 1)
         IN  shorter \cup { Append(s, x) : s \in shorter, x \in S }

ModuleDir(module) == ReplaceDots(SubSeq(module, 1, Len(module) - 2))

\* What every tree has: the packages, and the ignored components but demo.
BaseDirs ==
    { <<"homeassistant">>, ModuleDir(ComponentsAll), ModuleDir(TestsAll) }
    \cup { ModuleDir(IGNORED_MODULES[i]) :
             i \in { j \in 1..Len(IGNORED_MODULES) : IGNORED_MODULES[j] # DemoAll } }

BaseFiles == { ReplaceDots(COMPONENTS) \o <<"/", "__init__.py">> }

\* The demo package is there or not; foo.py and core.py are there or not.
Trees ==
    { [dirs |-> BaseDirs \cup (IF demo THEN {ModuleDir(DemoAll)} ELSE {}),
       files |-> BaseFiles
                 \cup (IF demo THEN {ReplaceDots(Demo) \o <<"/", "__init__.py">>} ELSE {})
                 \cup (IF rest THEN {ReplaceDots(Foo) \o <<".py">>,
                                     ReplaceDots(Core) \o <<".py">>} ELSE {})] :
        demo \in BOOLEAN, rest \in BOOLEAN }

FullTree == CHOOSE t \in Trees : \A u \in Trees : u.dirs \subseteq t.dirs /\ u.files \subseteq t.files

\* A mypy.ini as an earlier generation left it: for an empty declaration
\* file, or for the present one when it renders.
IniFiles(lines, tree) ==
    LET now == GenerateAndValidate(lines, tree, <<>>)
        old == GenerateAndValidate(<<>>, FullTree, <<>>)
    IN  { FileContent(old.text) }
        \cup (IF now.raised = "none" /\ now.text # EmptyText
              THEN { FileContent(now.text) } ELSE {})

Unset == [set |-> FALSE, text |-> EmptyText]

IsOtherError(e) == e.plugin # "mypy_config"

OtherError ==
    [plugin |-> "codeowners",
     error |-> <<"File CODEOWNERS is not up to date. Run python3 -m script.hassfest">>,
     fixable |-> TRUE]

----------------------------------------------------------------------------
\* The state machine.

Init ==
    /\ decl \in SeqsUpTo(DeclLines, MaxDecl)
    /\ fs \in Trees
    /\ ini \in IniFiles(decl, fs)
    /\ errors = <<>>
    /\ cache = Unset
    /\ result = Unset
    /\ raised = "none"
    /\ history = <<>>
    /\ before = 0

CanCall == raised = "none" /\ Len(history) < MaxCalls

\* A direct call of generate_and_validate(config).
CallGenerateAndValidate ==
    /\ CanCall
    /\ LET r == GenerateAndValidate(decl, fs, errors)
       IN  /\ errors' = r.errors
           /\ raised' = r.raised
           /\ result' = IF r.raised = "none" THEN [set |-> TRUE, text |-> r.text]
                        ELSE result
    /\ history' = Append(history, "generate_and_validate")
    /\ before' = Len(errors)
    /\ UNCHANGED <<decl, fs, ini, cache>>

\* validate(integrations, config)
Validate ==
    /\ CanCall
    /\ LET r == GenerateAndValidate(decl, fs, errors)
       IN  IF r.raised # "none"
           THEN /\ errors' = r.errors
                /\ raised' = r.raised
                /\ UNCHANGED <<cache, result>>
           ELSE /\ cache' = [set |-> TRUE, text |-> r.text]
                /\ result' = [set |-> TRUE, text |-> r.text]
                /\ raised' = "none"
                /\ errors' = IF SkipsComparison(r.errors) THEN r.errors
                             ELSE IF Strip(ini) # r.text
                                  THEN Append(r.errors, StaleError)
                                  ELSE r.errors
    /\ history' = Append(history, "validate")
    /\ before' = Len(errors)
    /\ UNCHANGED <<decl, fs, ini>>

\* generate(integrations, config): open(..., "w") truncates mypy.ini before
\* the cache is looked up.
Generate ==
    /\ CanCall
    /\ IF cache.set
       THEN ini' = FileContent(cache.text) /\ raised' = "none"
       ELSE ini' = EmptyText /\ raised' = "KeyError"
    /\ history' = Append(history, "generate")
    /\ before' = Len(errors)
    /\ UNCHANGED <<decl, fs, errors, cache, result>>

\* Another hassfest plugin reports into the same context.
OtherPlugin ==
    /\ CanCall
    /\ Len(SelectSeq(errors, IsOtherError)) < MaxOther
    /\ errors' = Append(errors, OtherError)
    /\ history' = Append(history, "other_plugin")
    /\ before' = Len(errors)
    /\ UNCHANGED <<decl, fs, ini, cache, result, raised>>

Next == CallGenerateAndValidate \/ Validate \/ Generate \/ OtherPlugin

Spec == Init /\ [][Next]_vars

----------------------------------------------------------------------------
\* What the properties below observe.

Last == IF history = <<>> THEN "none" ELSE history[Len(history)]

Previous == IF Len(history) < 2 THEN "none" ELSE history[Len(history) - 1]

\* The errors the last operation appended to the context.
Appended == SubSeq(errors, before + 1, Len(errors))

Occurrences(s, x) == Cardinality({i \in 1..Len(s) : s[i] = x})

Elements(s) == {s[i] : i \in 1..Len(s)}

\* How many of the errors are tagged mypy_config and carry the message.
CountMsg(errs, message) ==
    Cardinality({i \in 1..Len(errs) :
                    errs[i].plugin = "mypy_config" /\ errs[i].error = message})

IsIgnoredListError(e) ==
    e.plugin = "mypy_config"
    /\ e.error[Len(e.error)] = "' is in ignored list in mypy_config.py"

IsOnlyComponentsError(e) ==
    e.plugin = "mypy_config" /\ e.error[1] = "Only components should be added: "

IsMissingError(e) ==
    e.plugin = "mypy_config"
    /\ e.error[Len(e.error)] \in {" is not a folder", " doesn't exist"}

IsStaleError(e) == e = StaleError

IsBlockingError(e) ==
    IsIgnoredListError(e) \/ IsOnlyComponentsError(e) \/ IsMissingError(e)

ReturnedEmpty == raised = "none" /\ result = [set |-> TRUE, text |-> EmptyText]

Declared == ParsedModules(decl)

----------------------------------------------------------------------------
\* C1 (as amended): after validate(), a module of the declaration list that
\* is in IGNORED_MODULES has one "is in ignored list" error appended for each
\* of its occurrences in the declaration list, and generate_and_validate()
\* returned the empty string.
C1_IgnoredPerOccurrence ==
    Last = "validate" =>
        \A m \in Elements(Declared) \cap Elements(IGNORED_MODULES) :
            /\ CountMsg(Appended, IgnoredListMsg(m)) = Occurrences(Declared, m)
            /\ ReturnedEmpty

\* C1 as stated: exactly one such error for the module.
C1_ExactlyOneIgnored ==
    Last = "validate" =>
        \A m \in Elements(Declared) \cap Elements(IGNORED_MODULES) :
            /\ CountMsg(Appended, IgnoredListMsg(m)) = 1
            /\ ReturnedEmpty

C1_Witness ==
    /\ Last = "validate"
    /\ Occurrences(Declared, DemoAll) = 2
    /\ CountMsg(Appended, IgnoredListMsg(DemoAll)) = 2
    /\ ReturnedEmpty

\* C2: for the declaration list [homeassistant.components.demo], with the
\* demo package on disk and homeassistant.components.demo.* ignored,
\* validate() appends exactly one "is in ignored list" error and
\* generate_and_validate() returns the empty string.
C2_DemoIsContradictory ==
    (/\ history = <<"validate">>
     /\ Declared = <<Demo>>
     /\ ModuleDir(DemoAll) \in fs.dirs
     /\ DemoAll \in Elements(IGNORED_MODULES))
    => /\ Len(SelectSeq(Appended, IsIgnoredListError)) = 1
       /\ ReturnedEmpty

\* C3 (as amended): after validate(), an entry of the declaration list that
\* starts with "homeassistant.components" without being prefixed by
\* "homeassistant.components." or being the bare root has one "Only
\* components should be added" error for each of its occurrences; every
\* other entry, the core modules among them, has none.
C3_MisplacedPerOccurrence ==
    Last = "validate" =>
        \A m \in Elements(Declared) :
            CountMsg(Appended, OnlyComponentsMsg(m)) =
                IF /\ StartsWith(m, <<"homeassistant", ".", "components">>)
                   /\ ~StartsWith(m, <<"homeassistant", ".", "components", ".">>)
                   /\ m # <<"homeassistant", ".", "components">>
                THEN Occurrences(Declared, m)
                ELSE 0

\* C3 as stated: every entry outside "homeassistant.components." that is
\* not the bare root has exactly one such error.
C3_ExactlyOneMisplaced ==
    Last = "validate" =>
        \A m \in Elements(Declared) :
            (/\ ~StartsWith(m, <<"homeassistant", ".", "components", ".">>)
             /\ m # <<"homeassistant", ".", "components">>)
            => CountMsg(Appended, OnlyComponentsMsg(m)) = 1

C3_Witness ==
    /\ Last = "validate"
    /\ Declared = <<ComponentsX, Core>>
    /\ CountMsg(Appended, OnlyComponentsMsg(ComponentsX)) = 1
    /\ CountMsg(Appended, OnlyComponentsMsg(Core)) = 0

\* The filesystem path of a module does not exist: the directory of a name
\* ending in .*, else both <path>.py and <path>/__init__.py.
PathMissing(m) ==
    IF m[Len(m)] = "*" /\ m[Len(m) - 1] = "."
    THEN ReplaceDots(SubSeq(m, 1, Len(m) - 2)) \notin fs.dirs
    ELSE /\ ReplaceDots(m) \o <<".py">> \notin fs.files
         /\ ReplaceDots(m) \o <<"/", "__init__.py">> \notin fs.files

MissingMsg(m) ==
    IF m[Len(m)] = "*" /\ m[Len(m) - 1] = "."
    THEN <<"Module '">> \o m \o <<" is not a folder">>
    ELSE <<"Module '">> \o ReplaceDots(m) \o <<" doesn't exist">>

Checked == Declared \o IGNORED_MODULES

\* C4 (as amended): after validate(), a module whose path does not exist
\* has one missing-entry error for each of its occurrences in the
\* concatenation of the component-strict, core-strict and ignored modules,
\* a module whose path exists has none, and any missing path makes
\* generate_and_validate() return the empty string.
C4_MissingPerOccurrence ==
    Last = "validate" =>
        \A m \in Elements(Checked) :
            IF PathMissing(m)
            THEN /\ CountMsg(Appended, MissingMsg(m)) = Occurrences(Checked, m)
                 /\ ReturnedEmpty
            ELSE CountMsg(Appended, MissingMsg(m)) = 0

\* C4 as stated: exactly one missing-entry error for the module.
C4_ExactlyOneMissing ==
    Last = "validate" =>
        \A m \in Elements(Checked) :
            PathMissing(m) =>
                /\ CountMsg(Appended, MissingMsg(m)) = 1
                /\ ReturnedEmpty

C4_Witness ==
    /\ Last = "validate"
    /\ Declared = <<DemoAll, Foo>>
    /\ PathMissing(DemoAll) /\ PathMissing(Foo)
    /\ CountMsg(Appended, MissingMsg(DemoAll)) = 2
    /\ CountMsg(Appended, MissingMsg(Foo)) = 1
    /\ ReturnedEmpty

----------------------------------------------------------------------------
ValidDeclaration ==
    LET fresh == GenerateAndValidate(decl, fs, <<>>)
    IN  fresh.raised = "none" /\ fresh.errors = <<>>

\* C6: for a valid declaration list, what generate_and_validate() returns
\* is what it returns on a context without errors, whatever validate() or
\* generate() left in the context before.
C6_SameTextEveryCall ==
    (ValidDeclaration /\ result.set) =>
        result.text = GenerateAndValidate(decl, fs, <<>>).text

----------------------------------------------------------------------------
\* The sections of a text, read back from its lines.

AllLines(t) == t.lines \o <<t.tail>>

IsHeaderLine(line) == line # <<>> /\ line[1] = "["

HeaderLine(name) == <<"[">> \o name \o <<"]">>

\* The option lines below the header of a section, up to the empty line
\* (or the end of the text) that closes it.
OptionLines(t, name) ==
    LET lines == AllLines(t)
        h == CHOOSE i \in 1..Len(lines) : lines[i] = HeaderLine(name)
        e == CHOOSE k \in (h + 1)..(Len(lines) + 1) :
                /\ k = Len(lines) + 1 \/ lines[k] = <<>>
                /\ \A j \in (h + 1)..(k - 1) : lines[j] # <<>>
    IN  SubSeq(lines, h + 1, e - 1)

AllStrict(value) ==
    [k \in 1..Len(STRICT_SETTINGS) |-> <<STRICT_SETTINGS[k], " = ", value>>]

ModuleHeaders(modules) ==
    [i \in 1..Len(modules) |-> HeaderLine(<<"mypy-">> \o modules[i])]

C7_EmptyListWitness ==
    /\ Last = "validate"
    /\ Declared = <<>>
    /\ result.set
    /\ Len(SelectSeq(AllLines(result.text), IsHeaderLine)) = Len(IGNORED_MODULES) + 3

----------------------------------------------------------------------------
\* C8: no operation raises to the caller (generate() being called with the
\* cache that validate() filled), and what generate_and_validate(),
\* validate() and generate() append to the context is tagged mypy_config.
C8_NeverRaises ==
    /\ (Last = "generate" => cache.set) => raised = "none"
    /\ Last # "other_plugin" =>
          \A i \in 1..Len(Appended) : Appended[i].plugin = "mypy_config"

\* C9 (as amended): when a generation-blocking error is in the context after
\* validate(), the cached text is empty and the generate() that follows
\* overwrites mypy.ini with a single newline.
C9_BlockedWritesNewline ==
    (/\ Last = "generate" /\ Previous = "validate"
     /\ \E i \in 1..Len(errors) : IsBlockingError(errors[i]))
    => /\ cache = [set |-> TRUE, text |-> EmptyText]
       /\ ini = [lines |-> << <<>> >>, tail |-> <<>>]

\* C9 as stated: that generate() leaves the content of mypy.ini unchanged.
C9_BlockedLeavesFile ==
    [][(/\ Last = "validate"
        /\ \E i \in 1..Len(errors) : IsBlockingError(errors[i])
        /\ history' = Append(history, "generate"))
       => ini' = ini]_vars

C9_Witness ==
    /\ history = <<"validate", "generate">>
    /\ \E i \in 1..Len(errors) : IsMissingError(errors[i])
    /\ ini = [lines |-> << <<>> >>, tail |-> <<>>]

\* C10: validate() stores what generate_and_validate() returned in the
\* cache, and appends one fixable "mypy.ini is not up to date" error exactly
\* when no mypy_config error is in the context and the trimmed mypy.ini
\* differs from the cached text.
C10_ValidateContract ==
    Last = "validate" =>
        /\ raised = "none"
        /\ cache.set /\ cache = result
        /\ LET clean == \A i \in 1..Len(errors) :
                            errors[i].plugin = "mypy_config" =>
                                (i > before /\ errors[i] = StaleError)
           IN  Len(SelectSeq(Appended, IsStaleError)) =
                  IF clean /\ Strip(ini) # cache.text THEN 1 ELSE 0
        /\ \A i \in 1..Len(Appended) :
              IsStaleError(Appended[i]) => Appended[i].fixable

====
